---- MODULE Spec2Model ----
(***************************************************************************)
(* xpool: a type-safe object pool on top of sync.Pool.                     *)
(*                                                                         *)
(* The model follows one pool, built by one of the constructors of the     *)
(* packages xpool, resetter and monadicpool, used by two goroutines.       *)
(* Every goroutine runs Get ... use ... Put cycles; each call is split at  *)
(* the points where the code leaves the pool: the sync.Pool access, the    *)
(* constructor, the Reset call and each callback.                          *)
(*                                                                         *)
(* Values of the state type S are encoded as sequences: a []byte is the    *)
(* sequence of its bytes (nil and the empty slice are both << >>), an int  *)
(* n is << n >>.                                                           *)
(***************************************************************************)
EXTENDS Naturals, Sequences, FiniteSets

\* ------------------------------------------------------------------ bounds
\* Get calls made in a run, and with them the objects ever constructed.
MaxGets == 2
\* Length of the longest payload and state.
MaxLen == 1

\* Two goroutines share the pool.
Threads == {1, 2}
\* How many times the callers of the misuse runs leave one object resident.
MaxResident == 2

\* One object per Get at most; the longer runs make one Get more.
Objs == 1..(MaxGets + 1)
NoObj == 0

\* ------------------------------------------------------- types and values
\* The value types T of the tests: string, hash.Hash (sha256), *bytes.Reader.
VTypes == {"string", "hash", "reader"}

\* The state types S of the tests: []byte and int.
STypes == {"bytes", "int"}

\* One byte value: payloads and states differ by their length.
Bytes == {1}

RECURSIVE SeqsUpTo(_)
SeqsUpTo(n) ==
  IF n = 0 THEN {<< >>}
  ELSE SeqsUpTo(n - 1) \cup {Append(s, b) : s \in {q \in SeqsUpTo(n - 1) : Len(q) = n - 1}, b \in Bytes}

Payloads == SeqsUpTo(MaxLen)

\* var zero S
Zero(stype) == IF stype = "int" THEN <<0>> ELSE << >>

States(stype) == IF stype = "int" THEN {<<0>>, <<1>>} ELSE Payloads

\* any(object).(Resetter): the value has a method Reset().
IsResetter(vtype) == vtype = "hash"

\* The argument type of the value's one-argument Reset, "none" without one.
ResetArgType(vtype) == IF vtype = "reader" THEN "bytes" ELSE "none"

\* any(object).(Resetter[S]): the value has a method Reset(S), S exactly.
IsResetterS_Coercive(vtype, stype) == ResetArgType(vtype) # "none"

IsResetterS(vtype, stype) == ResetArgType(vtype) = stype

\* hash.Hash: Reset() forgets what was written; Write(p) accumulates.
ResetNiladic(c) == << >>

Write(c, p) == c \o p

\* bytes.Reader: Reset(b) makes the reader read from b.
ResetMonadic(c, state) == state

\* io.ReadAll on a reader just handed out.
ReadAll(c) == c

\* A digest of everything written since the last Reset (a small stand-in for
\* sha256: it depends on every byte written and on their order).
RECURSIVE Sum(_)
Sum(c) == IF c = << >> THEN 1 ELSE (3 * Sum(SubSeq(c, 1, Len(c) - 1)) + c[Len(c)]) % 7

\* --------------------------------------------------------- configuration
\* Functional options: WithOnGetResetCallback(cbs...), WithOnPutResetCallback(cbs...).
WithOnGetResetCallback(cbs) == [site |-> "get", cbs |-> cbs]

WithOnPutResetCallback(cbs) == [site |-> "put", cbs |-> cbs]

\* opt(&c): o.onXResets = append(o.onXResets, onXResets...)
ApplyOption(c, opt) ==
  IF opt.site = "get"
  THEN [c EXCEPT !.onGetResets = c.onGetResets \o opt.cbs]
  ELSE [c EXCEPT !.onPutResets = c.onPutResets \o opt.cbs]

\* var c pollConfig; for _, opt := range opts { opt(&c) }
RECURSIVE ApplyOptions(_, _)
ApplyOptions(c, opts) ==
  IF opts = << >> THEN c ELSE ApplyOptions(ApplyOption(c, Head(opts)), Tail(opts))

PollConfig(opts) == ApplyOptions([onGetResets |-> << >>, onPutResets |-> << >>], opts)

NoOpts == << >>
PutOpts == << WithOnPutResetCallback(<<1>>), WithOnPutResetCallback(<<4>>) >>
BothOpts == << WithOnPutResetCallback(<<1>>), WithOnGetResetCallback(<<2, 3>>), WithOnPutResetCallback(<<4>>) >>
\* One callback on each side, as TestOnResetCallbacks registers them.
ObsOpts == << WithOnGetResetCallback(<<2>>), WithOnPutResetCallback(<<1>>) >>

\* What the tests' callbacks do with their argument: callbacks 2 and 3 append
\* it to onGetCalls, callbacks 1 and 4 to onPutCalls; callback 5 is the
\* two-argument callback of package monadic.
OnGetCallbacks == {2, 3}
CombinedCallback == 5

\* ------------------------------------------------------------- resetters
\* A resetter is a function value: fn says what it is (nil, a custom function
\* that calls Reset, the default capability-detecting closure), arity the
\* number of arguments of the Reset it calls, cbs the callbacks it fires,
\* zero whether it is wrapped in "var zero S; f(object, zero)".
NilResetter == [fn |-> "nil", arity |-> 0, cbs |-> << >>, zero |-> FALSE]

\* func(h hash.Hash) { h.Reset() }
CustomResetter == [fn |-> "custom", arity |-> 0, cbs |-> << >>, zero |-> FALSE]

\* func(r *bytes.Reader, b []byte) { r.Reset(b) }
CustomResetterS == [fn |-> "custom", arity |-> 1, cbs |-> << >>, zero |-> FALSE]

\* The closure NewWithDefaultResetter hands to NewWithResetter.
DefaultResetter(onPutResets) == [fn |-> "default", arity |-> 0, cbs |-> onPutResets, zero |-> FALSE]

\* monadicpool.buildDefaultResetter(onResets...)
buildDefaultResetter(onResets) == [fn |-> "default", arity |-> 1, cbs |-> onResets, zero |-> FALSE]

buildDefaultResetterOnGet_AlwaysGet(onGet, onResets) ==
  [fn |-> "default", arity |-> 1, cbs |-> onResets, zero |-> FALSE, onGet |-> TRUE]

\* monadic.buildDefaultResetter(onGet, onResets...): the variant whose
\* callbacks take (called, onGet).
buildDefaultResetterOnGet(onGet, onResets) ==
  [fn |-> "default", arity |-> 1, cbs |-> onResets, zero |-> FALSE, onGet |-> onGet]

\* resetter != nil: a nil function value is nil, a closure around one is not.
IsNil(resetter) == resetter.fn = "nil" /\ ~resetter.zero

\* func(object T) { var zero S; resetter(object, zero) }
WithZero_PassThrough(resetter) == resetter

WithZero(resetter) == [resetter EXCEPT !.zero = TRUE]

\* ---------------------------------------------------------- constructors
\* version "simple": one struct with a nil-checked resetter (pool.go:110-131).
\* version "decorator": resettablePool around a plain pool (pool_niladic.go:127-158).
Versions == {"simple", "decorator"}

MakePool(impl, vtype, stype, resetter, getResetter, monadic) ==
  [impl |-> impl, vtype |-> vtype, stype |-> stype, resetter |-> resetter,
   getResetter |-> getResetter, monadic |-> monadic]

\* xpool.NewWithResetter(ctor, resetter)
NewWithResetter(version, vtype, stype, resetter) ==
  MakePool(IF version = "simple" THEN "simplePool" ELSE "resettablePool",
           vtype, stype, resetter, NilResetter, FALSE)

\* xpool.New(ctor)
New(version, vtype) ==
  IF version = "simple"
  THEN NewWithResetter(version, vtype, "bytes", NilResetter)
  ELSE MakePool("plainPool", vtype, "bytes", NilResetter, NilResetter, FALSE)

\* xpool.NewWithDefaultResetter(ctor, opts...)
NewWithDefaultResetter(version, vtype, opts) ==
  NewWithResetter(version, vtype, "bytes", DefaultResetter(PollConfig(opts).onPutResets))

\* resetter.NewPool(ctor): Put calls Reset() itself, then the plain pool's Put.
NewPool(vtype) == MakePool("PoolResetter", vtype, "bytes", CustomResetter, NilResetter, FALSE)

\* monadicpool.newWithResetters(ctor, onGetResetter, onPutResetter)
newWithResetters(version, vtype, stype, onGetResetter, onPutResetter) ==
  [NewWithResetter(version, vtype, stype, onPutResetter)
     EXCEPT !.getResetter = onGetResetter, !.monadic = TRUE]

MonadicNew_NoGetCallbacks(version, vtype, stype, opts) ==
  newWithResetters(version, vtype, stype,
                   buildDefaultResetter(<< >>),
                   WithZero(buildDefaultResetter(PollConfig(opts).onPutResets)))

\* monadicpool.New[S](ctor, opts...)
MonadicNew(version, vtype, stype, opts) ==
  newWithResetters(version, vtype, stype,
                   buildDefaultResetter(PollConfig(opts).onGetResets),
                   WithZero(buildDefaultResetter(PollConfig(opts).onPutResets)))

MonadicNewWithResetter_NoZero(version, vtype, stype, customResetter) ==
  newWithResetters(version, vtype, stype, customResetter, customResetter)

\* monadicpool.NewWithResetter(ctor, customResetter)
MonadicNewWithResetter(version, vtype, stype, customResetter) ==
  newWithResetters(version, vtype, stype, customResetter, WithZero(customResetter))

\* monadic.New[S](ctor, onResets...): one list of callbacks for both sites.
MonadicNewCombined(vtype, stype, onResets) ==
  newWithResetters("simple", vtype, stype,
                   buildDefaultResetterOnGet(TRUE, onResets),
                   WithZero(buildDefaultResetterOnGet(FALSE, onResets)))

\* resetter.NewPoolMonadic(ctor): Get calls Reset(t), Put calls Reset(zero).
NewPoolMonadic(vtype, stype) ==
  MakePool("PoolResetter", vtype, stype, WithZero(CustomResetterS), CustomResetterS, TRUE)

\* The pools of the tests and examples (every one of them type-checks in Go:
\* a custom resetter that calls Reset needs a value type that has it).
NiladicPools ==
  { New("simple", "hash"),
    New("decorator", "hash"),
    NewWithResetter("simple", "hash", "bytes", CustomResetter),
    NewWithResetter("decorator", "hash", "bytes", CustomResetter),
    NewWithDefaultResetter("simple", "string", PutOpts),
    NewWithDefaultResetter("simple", "hash", PutOpts),
    NewWithDefaultResetter("decorator", "hash", NoOpts),
    NewPool("hash") }

MonadicPools ==
  { MonadicNew("simple", "reader", "bytes", BothOpts),
    MonadicNew("simple", "reader", "int", BothOpts),
    MonadicNew("simple", "string", "int", BothOpts),
    MonadicNewWithResetter("simple", "reader", "bytes", CustomResetterS),
    NewPoolMonadic("reader", "bytes") }

Pools == NiladicPools \cup MonadicPools

\* The pools of TestOnResetCallbacks, in packages monadicpool and monadic.
ObserverPools ==
  { MonadicNew("simple", "string", "int", ObsOpts),
    MonadicNew("simple", "reader", "int", ObsOpts),
    MonadicNew("simple", "reader", "bytes", ObsOpts),
    MonadicNewCombined("string", "int", <<CombinedCallback>>),
    MonadicNewCombined("reader", "int", <<CombinedCallback>>),
    MonadicNewCombined("reader", "bytes", <<CombinedCallback>>) }

\* ------------------------------------------------------------------ state
VARIABLES
  pool,     \* the pool under test, as its constructor built it
  store,    \* sync.Pool: how many times each object is resident
  content,  \* what each object holds (bytes written / bytes to read)
  nObjs,    \* objects constructed so far
  pc,       \* where each goroutine is
  obj,      \* the object a goroutine's call works on or holds
  st,       \* the state argument of the goroutine's Get
  ok,       \* the result of the capability check of the running resetter
  fired,    \* callbacks fired by the running resetter, with their argument
  trace,    \* reset attempts of the goroutine's current cycle
  fetched,  \* what sync.Pool.Get yielded to the running Get (NoObj: nil)
  built,    \* constructor calls made by the running Get
  readed,   \* what the holder read back from the object
  inp,      \* what the holder wrote into the object
  digest,   \* the digest the holder took after writing
  nGets,    \* Get calls started
  nCtor,    \* constructor calls made
  nMiss,    \* Get calls whose fetch missed
  onGetCalls,  \* what the acquisition observers recorded, in order
  onPutCalls,  \* what the release observers recorded, in order
  getsLeft,    \* Get calls the callers have yet to make
  dropped,     \* the objects sync.Pool has dropped, and when
  nPuts,       \* Put calls completed, per object
  nHits        \* Get calls that fetched the object from sync.Pool, per object

vars == <<pool, store, content, nObjs, pc, obj, st, ok, fired, trace, fetched,
          built, readed, inp, digest, nGets, nCtor, nMiss, onGetCalls, onPutCalls,
          getsLeft, dropped, nPuts, nHits>>

callVars == <<ok, fired, trace, fetched, built>>
useVars == <<readed, inp, digest>>
countVars == <<nGets, nCtor, nMiss, getsLeft>>
obsVars == <<onGetCalls, onPutCalls>>

\* A pool just built: nothing resident, no call made.
Fresh ==
  /\ store = [v \in Objs |-> 0]
  /\ content = [v \in Objs |-> << >>]
  /\ nObjs = 0
  /\ pc = [t \in Threads |-> "idle"]
  /\ obj = [t \in Threads |-> NoObj]
  /\ st = [t \in Threads |-> << >>]
  /\ ok = [t \in Threads |-> FALSE]
  /\ fired = [t \in Threads |-> << >>]
  /\ trace = [t \in Threads |-> << >>]
  /\ fetched = [t \in Threads |-> NoObj]
  /\ built = [t \in Threads |-> 0]
  /\ readed = [t \in Threads |-> << >>]
  /\ inp = [t \in Threads |-> << >>]
  /\ digest = [t \in Threads |-> 0]
  /\ nGets = 0
  /\ nCtor = 0
  /\ nMiss = 0
  /\ onGetCalls = << >>
  /\ onPutCalls = << >>
  /\ dropped = {}
  /\ nPuts = [v \in Objs |-> 0]
  /\ nHits = [v \in Objs |-> 0]

Init == pool \in Pools /\ getsLeft = MaxGets /\ Fresh

\* ------------------------------------------------------ resetter bodies
\* The state a resetter passes to Reset: the zero value when wrapped.
ResetArg_State(resetter, state) == state

ResetArg(resetter, state) == IF resetter.zero THEN Zero(pool.stype) ELSE state

\* Whether the resetter calls Reset on the object: a custom resetter calls it
\* outright, the default one after the type assertion.
Called(resetter) ==
  IF resetter.fn = "custom" THEN TRUE
  ELSE IF resetter.arity = 0 THEN IsResetter(pool.vtype)
  ELSE IsResetterS(pool.vtype, pool.stype)

Resetted_Skip(resetter, c, state) == c

\* The object after the Reset call, if any.
Resetted(resetter, c, state) ==
  IF ~Called(resetter) THEN c
  ELSE IF resetter.arity = 0 THEN ResetNiladic(c)
  ELSE ResetMonadic(c, ResetArg(resetter, state))

\* for _, onReset := range onResets: the callback to fire next.
NextCallback_Reversed(cbs, done) == cbs[Len(cbs) - Len(done)]

NextCallback(cbs, done) == cbs[Len(done) + 1]

\* onReset(ok)
CallbackArg_True(t) == TRUE

CallbackArg(t) == ok[t]

\* The arguments a callback is called with: (called), or (called, onGet) in
\* package monadic.
CallbackArgs(resetter, cb, called) ==
  IF "onGet" \in DOMAIN resetter
  THEN [cb |-> cb, called |-> called, onGet |-> resetter.onGet]
  ELSE [cb |-> cb, called |-> called]

\* Whether the callback records its argument as an acquisition: the test's
\* callbacks append to a list of their own, the two-argument one goes by onGet.
ObservedOnGet(resetter, cb) ==
  IF "onGet" \in DOMAIN resetter THEN resetter.onGet ELSE cb \in OnGetCallbacks

Attempt_ResetAfterCallbacks(t, resetter, site, cbsPc, nextPc) ==
  /\ content' = [content EXCEPT ![obj[t]] =
       IF resetter.cbs = << >> THEN Resetted(resetter, @, st[t]) ELSE @]
  /\ ok' = [ok EXCEPT ![t] = Called(resetter)]
  /\ fired' = [fired EXCEPT ![t] = << >>]
  /\ trace' = [trace EXCEPT ![t] =
       Append(@, [site |-> site, obj |-> obj[t],
                  arg |-> IF resetter.arity = 0 THEN << >> ELSE ResetArg(resetter, st[t]),
                  called |-> Called(resetter)])]
  /\ pc' = [pc EXCEPT ![t] = IF resetter.cbs = << >> THEN nextPc ELSE cbsPc]

\* The first part of a resetter: the capability check and the Reset call.
Attempt(t, resetter, site, cbsPc, nextPc) ==
  /\ content' = [content EXCEPT ![obj[t]] = Resetted(resetter, @, st[t])]
  /\ ok' = [ok EXCEPT ![t] = Called(resetter)]
  /\ fired' = [fired EXCEPT ![t] = << >>]
  /\ trace' = [trace EXCEPT ![t] =
       Append(@, [site |-> site, obj |-> obj[t],
                  arg |-> IF resetter.arity = 0 THEN << >> ELSE ResetArg(resetter, st[t]),
                  called |-> Called(resetter)])]
  /\ pc' = [pc EXCEPT ![t] = IF resetter.cbs = << >> THEN nextPc ELSE cbsPc]

\* Calling a nil function value panics: the goroutine's call never returns.
NilCall(t) ==
  /\ pc' = [pc EXCEPT ![t] = "panicked"]
  /\ UNCHANGED <<content, ok, fired, trace>>

CallResetter_Unchecked(t, resetter, site, cbsPc, nextPc) ==
  IF resetter.fn = "nil" \/ ~Called(resetter)
  THEN NilCall(t) ELSE Attempt(t, resetter, site, cbsPc, nextPc)

\* p.resetter(...): the call of the function value the pool was built with.
CallResetter(t, resetter, site, cbsPc, nextPc) ==
  IF resetter.fn = "nil" THEN NilCall(t) ELSE Attempt(t, resetter, site, cbsPc, nextPc)

\* The second part: one callback of the loop.
Callback(t, resetter, nextPc) ==
  /\ Len(fired[t]) < Len(resetter.cbs)
  /\ fired' = [fired EXCEPT ![t] =
       Append(@, CallbackArgs(resetter, NextCallback(resetter.cbs, fired[t]), CallbackArg(t)))]
  /\ onGetCalls' = IF ObservedOnGet(resetter, NextCallback(resetter.cbs, fired[t]))
                   THEN Append(onGetCalls, CallbackArg(t)) ELSE onGetCalls
  /\ onPutCalls' = IF ObservedOnGet(resetter, NextCallback(resetter.cbs, fired[t]))
                   THEN onPutCalls ELSE Append(onPutCalls, CallbackArg(t))
  /\ pc' = [pc EXCEPT ![t] = IF Len(fired[t]) + 1 = Len(resetter.cbs) THEN nextPc ELSE @]

\* -------------------------------------------------------------------- Get
AfterFetch_NoReset == "held"

AfterFetch_AlwaysReset == "get_reset"

\* Where Get goes once it has its object: the monadic pool runs the
\* acquisition resetter, the niladic pools return.

AfterFetch == IF pool.monadic THEN "get_reset" ELSE "held"

\* What a call of Get(state) sets up in the calling goroutine.
EnterGet(t, state) ==
  /\ pc[t] \in {"idle", "done"}
  /\ getsLeft > 0
  /\ getsLeft' = getsLeft - 1
  /\ pool.monadic \/ state = Zero(pool.stype)
  /\ st' = [st EXCEPT ![t] = state]
  /\ ok' = [ok EXCEPT ![t] = FALSE]
  /\ fired' = [fired EXCEPT ![t] = << >>]
  /\ trace' = [trace EXCEPT ![t] = << >>]
  /\ built' = [built EXCEPT ![t] = 0]
  /\ readed' = [readed EXCEPT ![t] = << >>]
  /\ inp' = [inp EXCEPT ![t] = << >>]
  /\ digest' = [digest EXCEPT ![t] = 0]
  /\ nGets' = nGets + 1

GetHit_ThenCtor(t, state, v) ==
  /\ EnterGet(t, state)
  /\ store[v] > 0
  /\ store' = [store EXCEPT ![v] = @ - 1]
  /\ obj' = [obj EXCEPT ![t] = v]
  /\ fetched' = [fetched EXCEPT ![t] = v]
  /\ nHits' = [nHits EXCEPT ![v] = @ + 1]
  /\ pc' = [pc EXCEPT ![t] = "get_ctor"]
  /\ nMiss' = nMiss + 1
  /\ UNCHANGED <<pool, dropped, nPuts, content, nObjs, nCtor>>
  /\ UNCHANGED obsVars

GetHit_Peek(t, state, v) ==
  /\ EnterGet(t, state)
  /\ store[v] > 0
  /\ store' = store
  /\ obj' = [obj EXCEPT ![t] = v]
  /\ fetched' = [fetched EXCEPT ![t] = v]
  /\ nHits' = [nHits EXCEPT ![v] = @ + 1]
  /\ pc' = [pc EXCEPT ![t] = AfterFetch]
  /\ UNCHANGED <<pool, dropped, nPuts, content, nObjs, nCtor, nMiss>>
  /\ UNCHANGED obsVars

GetHit_Unowned(t, state, v) ==
  /\ EnterGet(t, state)
  /\ v \in 1..nObjs
  /\ store' = [store EXCEPT ![v] = IF @ > 0 THEN @ - 1 ELSE @]
  /\ obj' = [obj EXCEPT ![t] = v]
  /\ fetched' = [fetched EXCEPT ![t] = v]
  /\ nHits' = [nHits EXCEPT ![v] = @ + 1]
  /\ pc' = [pc EXCEPT ![t] = AfterFetch]
  /\ UNCHANGED <<pool, dropped, nPuts, content, nObjs, nCtor, nMiss>>
  /\ UNCHANGED obsVars

\* Get(state), object, ok := p.pool.Get().(T) with ok: sync.Pool yields a
\* resident object.
GetHit(t, state, v) ==
  /\ EnterGet(t, state)
  /\ store[v] > 0
  /\ store' = [store EXCEPT ![v] = @ - 1]
  /\ obj' = [obj EXCEPT ![t] = v]
  /\ fetched' = [fetched EXCEPT ![t] = v]
  /\ nHits' = [nHits EXCEPT ![v] = @ + 1]
  /\ pc' = [pc EXCEPT ![t] = AfterFetch]
  /\ UNCHANGED <<pool, dropped, nPuts, content, nObjs, nCtor, nMiss>>
  /\ UNCHANGED obsVars

GetMiss_Fabricates(t, state) ==
  /\ EnterGet(t, state)
  /\ nObjs' = nObjs + 1
  /\ content' = [content EXCEPT ![nObjs + 1] = << >>]
  /\ obj' = [obj EXCEPT ![t] = nObjs + 1]
  /\ fetched' = [fetched EXCEPT ![t] = nObjs + 1]
  /\ nHits' = [nHits EXCEPT ![nObjs + 1] = @ + 1]
  /\ pc' = [pc EXCEPT ![t] = AfterFetch]
  /\ UNCHANGED <<pool, dropped, nPuts, store, nCtor, nMiss>>
  /\ UNCHANGED obsVars

\* ... with !ok: sync.Pool yields nil (it is empty, or drops or ignores what
\* it holds, as sync.Pool may).
GetMiss(t, state) ==
  /\ EnterGet(t, state)
  /\ obj' = [obj EXCEPT ![t] = NoObj]
  /\ fetched' = [fetched EXCEPT ![t] = NoObj]
  /\ pc' = [pc EXCEPT ![t] = "get_ctor"]
  /\ nMiss' = nMiss + 1
  /\ UNCHANGED <<pool, dropped, nPuts, nHits, store, content, nObjs, nCtor>>
  /\ UNCHANGED obsVars

Construct_Singleton(t) ==
  /\ pc[t] = "get_ctor"
  /\ nObjs' = 1
  /\ content' = [content EXCEPT ![1] = << >>]
  /\ obj' = [obj EXCEPT ![t] = 1]
  /\ built' = [built EXCEPT ![t] = @ + 1]
  /\ nCtor' = nCtor + 1
  /\ pc' = [pc EXCEPT ![t] = AfterFetch]
  /\ UNCHANGED <<pool, dropped, nPuts, nHits, store, st, ok, fired, trace, fetched, nGets, nMiss, getsLeft>>
  /\ UNCHANGED useVars
  /\ UNCHANGED obsVars

Construct_WaitsForRelease(t) ==
  /\ pc[t] = "get_ctor"
  /\ \A u \in Threads \ {t} : pc[u] \notin {"held", "used"}
  /\ nObjs' = nObjs + 1
  /\ content' = [content EXCEPT ![nObjs + 1] = << >>]
  /\ obj' = [obj EXCEPT ![t] = nObjs + 1]
  /\ built' = [built EXCEPT ![t] = @ + 1]
  /\ nCtor' = nCtor + 1
  /\ pc' = [pc EXCEPT ![t] = AfterFetch]
  /\ UNCHANGED <<pool, dropped, nPuts, nHits, store, st, ok, fired, trace, fetched, nGets, nMiss, getsLeft>>
  /\ UNCHANGED useVars
  /\ UNCHANGED obsVars

\* object = p.ctor(): a new instance, empty.
Construct(t) ==
  /\ pc[t] = "get_ctor"
  /\ nObjs' = nObjs + 1
  /\ content' = [content EXCEPT ![nObjs + 1] = << >>]
  /\ obj' = [obj EXCEPT ![t] = nObjs + 1]
  /\ built' = [built EXCEPT ![t] = @ + 1]
  /\ nCtor' = nCtor + 1
  /\ pc' = [pc EXCEPT ![t] = AfterFetch]
  /\ UNCHANGED <<pool, dropped, nPuts, nHits, store, st, ok, fired, trace, fetched, nGets, nMiss, getsLeft>>
  /\ UNCHANGED useVars
  /\ UNCHANGED obsVars

\* p.resetter(object, state) of resettableMonadicPool.Get: check and Reset.
GetReset(t) ==
  /\ pc[t] = "get_reset"
  /\ CallResetter(t, pool.getResetter, "get", "get_cbs", "held")
  /\ UNCHANGED <<pool, dropped, nPuts, nHits, store, nObjs, obj, st, fetched, built>>
  /\ UNCHANGED useVars
  /\ UNCHANGED countVars
  /\ UNCHANGED obsVars

\* ... its callbacks, one at a time; Get returns after the last one.
GetCallback(t) ==
  /\ pc[t] = "get_cbs"
  /\ Callback(t, pool.getResetter, "held")
  /\ UNCHANGED <<pool, dropped, nPuts, nHits, store, content, nObjs, obj, st, ok, trace, fetched, built>>
  /\ UNCHANGED useVars
  /\ UNCHANGED countVars

\* ----------------------------------------------------------------- holder
\* The holder uses the object as the tests do: a hash is written to and its
\* digest taken, a reader is read back.
Use(t, p) ==
  /\ pc[t] = "held"
  /\ pool.vtype = "hash" \/ p = << >>
  /\ content' = [content EXCEPT ![obj[t]] = IF pool.vtype = "hash" THEN Write(@, p) ELSE @]
  /\ inp' = [inp EXCEPT ![t] = p]
  /\ digest' = [digest EXCEPT ![t] = Sum(content'[obj[t]])]
  /\ readed' = [readed EXCEPT ![t] = ReadAll(content[obj[t]])]
  /\ pc' = [pc EXCEPT ![t] = "used"]
  /\ UNCHANGED <<pool, dropped, nPuts, nHits, store, nObjs, obj, st>>
  /\ UNCHANGED callVars
  /\ UNCHANGED countVars
  /\ UNCHANGED obsVars

\* -------------------------------------------------------------------- Put
\* Where Put starts: simplePool checks "p.resetter != nil", resettablePool and
\* PoolResetter call the resetter outright, the plain pool has none.
PutEntryOf_DecoratorSkips(p) ==
  IF p.impl = "simplePool"
  THEN (IF ~IsNil(p.resetter) THEN "put_reset" ELSE "put_store")
  ELSE "put_store"

PutEntryOf(p) ==
  IF p.impl = "simplePool"
  THEN (IF ~IsNil(p.resetter) THEN "put_reset" ELSE "put_store")
  ELSE IF p.impl = "plainPool" THEN "put_store"
  ELSE "put_reset"

PutEntry_StoreFirst == "put_store"

PutEntry_NilCheckInverted ==
  IF IsNil(pool.resetter) THEN "put_reset" ELSE "put_store"

PutEntry == PutEntryOf(pool)

\* The holder calls Put(object).
CallPut(t) ==
  /\ pc[t] \in {"held", "used"}
  /\ pc' = [pc EXCEPT ![t] = PutEntry]
  /\ UNCHANGED <<pool, dropped, nPuts, nHits, store, content, nObjs, obj, st>>
  /\ UNCHANGED callVars
  /\ UNCHANGED useVars
  /\ UNCHANGED countVars
  /\ UNCHANGED obsVars

PutReset_Locked(t) ==
  /\ pc[t] = "put_reset"
  /\ \A u \in Threads \ {t} : pc[u] \notin {"put_reset", "put_cbs"}
  /\ CallResetter(t, pool.resetter, "put", "put_cbs", "put_store")
  /\ UNCHANGED <<pool, dropped, nPuts, nHits, store, nObjs, obj, st, fetched, built>>
  /\ UNCHANGED useVars
  /\ UNCHANGED countVars
  /\ UNCHANGED obsVars

\* p.resetter(object): check and Reset.
PutReset(t) ==
  /\ pc[t] = "put_reset"
  /\ CallResetter(t, pool.resetter, "put", "put_cbs", "put_store")
  /\ UNCHANGED <<pool, dropped, nPuts, nHits, store, nObjs, obj, st, fetched, built>>
  /\ UNCHANGED useVars
  /\ UNCHANGED countVars
  /\ UNCHANGED obsVars

\* ... its callbacks, one at a time.
PutCallback(t) ==
  /\ pc[t] = "put_cbs"
  /\ Callback(t, pool.resetter, "put_store")
  /\ UNCHANGED <<pool, dropped, nPuts, nHits, store, content, nObjs, obj, st, ok, trace, fetched, built>>
  /\ UNCHANGED useVars
  /\ UNCHANGED countVars

PutStore_Checked(t) ==
  /\ pc[t] = "put_store"
  /\ store' = [store EXCEPT ![obj[t]] = IF @ = 0 THEN 1 ELSE @]
  /\ pc' = [pc EXCEPT ![t] = "done"]
  /\ nPuts' = [nPuts EXCEPT ![obj[t]] = @ + 1]
  /\ UNCHANGED <<pool, dropped, nHits, content, nObjs, obj, st>>
  /\ UNCHANGED callVars
  /\ UNCHANGED useVars
  /\ UNCHANGED countVars
  /\ UNCHANGED obsVars

PutStore_Wipes(t) ==
  /\ pc[t] = "put_store"
  /\ store' = [store EXCEPT ![obj[t]] = @ + 1]
  /\ content' = [content EXCEPT ![obj[t]] = << >>]
  /\ pc' = [pc EXCEPT ![t] = "done"]
  /\ nPuts' = [nPuts EXCEPT ![obj[t]] = @ + 1]
  /\ UNCHANGED <<pool, dropped, nHits, nObjs, obj, st>>
  /\ UNCHANGED callVars
  /\ UNCHANGED useVars
  /\ UNCHANGED countVars
  /\ UNCHANGED obsVars

\* p.pool.Put(object): the object becomes resident; Put returns.
PutStore(t) ==
  /\ pc[t] = "put_store"
  /\ store' = [store EXCEPT ![obj[t]] = @ + 1]
  /\ pc' = [pc EXCEPT ![t] = "done"]
  /\ nPuts' = [nPuts EXCEPT ![obj[t]] = @ + 1]
  /\ UNCHANGED <<pool, dropped, nHits, content, nObjs, obj, st>>
  /\ UNCHANGED callVars
  /\ UNCHANGED useVars
  /\ UNCHANGED countVars
  /\ UNCHANGED obsVars

\* ----------------------------------------------------------- specification
Next ==
  \/ \E t \in Threads : \E state \in States(pool.stype) : \E v \in Objs : GetHit(t, state, v)
  \/ \E t \in Threads : \E state \in States(pool.stype) : GetMiss(t, state)
  \/ \E t \in Threads : Construct(t)
  \/ \E t \in Threads : GetReset(t)
  \/ \E t \in Threads : GetCallback(t)
  \/ \E t \in Threads : \E p \in Payloads : Use(t, p)
  \/ \E t \in Threads : CallPut(t)
  \/ \E t \in Threads : PutReset(t)
  \/ \E t \in Threads : PutCallback(t)
  \/ \E t \in Threads : PutStore(t)

Spec == Init /\ [][Next]_vars

\* The steps a goroutine takes inside Get and Put: a goroutine that is inside
\* a call keeps running, and the constructor, the resetter and the callbacks
\* return. Calling Get, using the value and calling Put are up to the caller.
Step(t) ==
  \/ Construct(t)
  \/ GetReset(t)
  \/ GetCallback(t)
  \/ PutReset(t)
  \/ PutCallback(t)
  \/ PutStore(t)

SpecLive == Init /\ [][Next]_vars /\ \A t \in Threads : WF_vars(Step(t))

\* object = p.ctor() with a constructor that panics: nothing catches it
\* (simplePool.Get and resettableMonadicPool.Get have no recover), so the
\* panic unwinds Get and reaches the caller.
CtorPanic_Retry(t) ==
  /\ pc[t] = "get_ctor"
  /\ built' = [built EXCEPT ![t] = @ + 1]
  /\ nCtor' = nCtor + 1
  /\ UNCHANGED <<pool, dropped, nPuts, nHits, store, content, nObjs, pc, obj, st, ok, fired, trace, fetched, nGets, nMiss, getsLeft>>
  /\ UNCHANGED useVars
  /\ UNCHANGED obsVars

CtorPanic(t) ==
  /\ pc[t] = "get_ctor"
  /\ built' = [built EXCEPT ![t] = @ + 1]
  /\ nCtor' = nCtor + 1
  /\ pc' = [pc EXCEPT ![t] = "panicked"]
  /\ UNCHANGED <<pool, dropped, nPuts, nHits, store, content, nObjs, obj, st, ok, fired, trace, fetched, nGets, nMiss, getsLeft>>
  /\ UNCHANGED useVars
  /\ UNCHANGED obsVars

\* The pools used with a constructor that may panic.
NextPanic == Next \/ \E t \in Threads : CtorPanic(t)

SpecPanic == Init /\ [][NextPanic]_vars

\* Longer runs, one Get more than the others, on a pool of each kind: no
\* release hook, a niladic one with callbacks, a stateful one with callbacks.
DeepPools ==
  { New("simple", "hash"),
    NewWithDefaultResetter("simple", "hash", PutOpts),
    MonadicNew("simple", "reader", "bytes", BothOpts) }

InitDeep == pool \in DeepPools /\ getsLeft = MaxGets + 1 /\ Fresh

SpecDeep == InitDeep /\ [][Next]_vars

\* A caller that breaks the discipline: Put(object) once more on the value
\* its last Put released.
CallPutAgain(t) ==
  /\ pc[t] = "done"
  /\ store[obj[t]] < MaxResident
  /\ pc' = [pc EXCEPT ![t] = PutEntry]
  /\ UNCHANGED <<pool, dropped, nPuts, nHits, store, content, nObjs, obj, st>>
  /\ UNCHANGED callVars
  /\ UNCHANGED useVars
  /\ UNCHANGED countVars
  /\ UNCHANGED obsVars

NextMisuse == Next \/ \E t \in Threads : CallPutAgain(t)

\* ... on a pool without a release hook and on a stateful one with a
\* callback on each side, both of strings.
MisusePools ==
  { New("simple", "string"),
    MonadicNew("simple", "string", "int", ObsOpts) }

InitMisuse == pool \in MisusePools /\ getsLeft = MaxGets + 1 /\ Fresh

SpecMisuse == InitMisuse /\ [][NextMisuse]_vars

\* Pools built with a nil resetter.
NilPools ==
  { NewWithResetter("simple", "hash", "bytes", NilResetter),
    NewWithResetter("decorator", "hash", "bytes", NilResetter),
    MonadicNewWithResetter("simple", "reader", "bytes", NilResetter) }

\* ... used next to pools built with their resetters.
InitNil == pool \in (NilPools \cup ObserverPools) /\ getsLeft = MaxGets /\ Fresh

SpecNil == InitNil /\ [][Next]_vars

\* The pools of the callback tests, used the same way.
InitObs == pool \in ObserverPools /\ getsLeft = MaxGets /\ Fresh

SpecObs == InitObs /\ [][Next]_vars

\* ------------------------------------------------------- panicking resetters
\* What a resetter that panics may have done to the object before: nothing,
\* or the Reset call (the panic then comes from what follows it).
PanicLeaves(t, resetter, resetPc) ==
  IF pc[t] = resetPc
  THEN {content[obj[t]], Resetted(resetter, content[obj[t]], st[t])}
  ELSE {content[obj[t]]}

PutHookPanic_Deferred(t) ==
  /\ pc[t] \in {"put_reset", "put_cbs"}
  /\ pool.resetter.fn # "nil"
  /\ \E c \in PanicLeaves(t, pool.resetter, "put_reset") :
       content' = [content EXCEPT ![obj[t]] = c]
  /\ store' = [store EXCEPT ![obj[t]] = @ + 1]
  /\ pc' = [pc EXCEPT ![t] = "panicked_put"]
  /\ UNCHANGED <<pool, dropped, nPuts, nHits, nObjs, obj, st>>
  /\ UNCHANGED callVars
  /\ UNCHANGED useVars
  /\ UNCHANGED countVars
  /\ UNCHANGED obsVars

\* p.resetter(object) of Put panics, in the resetter or in one of its
\* callbacks: Put has no recover and no defer, the panic unwinds it before
\* p.pool.Put(object).
PutHookPanic(t) ==
  /\ pc[t] \in {"put_reset", "put_cbs"}
  /\ pool.resetter.fn # "nil"
  /\ \E c \in PanicLeaves(t, pool.resetter, "put_reset") :
       content' = [content EXCEPT ![obj[t]] = c]
  /\ pc' = [pc EXCEPT ![t] = "panicked_put"]
  /\ UNCHANGED <<pool, dropped, nPuts, nHits, store, nObjs, obj, st>>
  /\ UNCHANGED callVars
  /\ UNCHANGED useVars
  /\ UNCHANGED countVars
  /\ UNCHANGED obsVars

GetResetPanic_PutsBack(t) ==
  /\ pc[t] \in {"get_reset", "get_cbs"}
  /\ pool.getResetter.fn # "nil"
  /\ \E c \in PanicLeaves(t, pool.getResetter, "get_reset") :
       content' = [content EXCEPT ![obj[t]] = c]
  /\ store' = [store EXCEPT ![obj[t]] = @ + 1]
  /\ pc' = [pc EXCEPT ![t] = "panicked_get"]
  /\ UNCHANGED <<pool, dropped, nPuts, nHits, nObjs, obj, st>>
  /\ UNCHANGED callVars
  /\ UNCHANGED useVars
  /\ UNCHANGED countVars
  /\ UNCHANGED obsVars

\* p.resetter(object, state) of the stateful Get panics: Get has no recover
\* and no defer, the object it took from p.pool.Get() goes nowhere.
GetResetPanic(t) ==
  /\ pc[t] \in {"get_reset", "get_cbs"}
  /\ pool.getResetter.fn # "nil"
  /\ \E c \in PanicLeaves(t, pool.getResetter, "get_reset") :
       content' = [content EXCEPT ![obj[t]] = c]
  /\ pc' = [pc EXCEPT ![t] = "panicked_get"]
  /\ UNCHANGED <<pool, dropped, nPuts, nHits, store, nObjs, obj, st>>
  /\ UNCHANGED callVars
  /\ UNCHANGED useVars
  /\ UNCHANGED countVars
  /\ UNCHANGED obsVars

NextResetPanic ==
  \/ Next
  \/ \E t \in Threads : PutHookPanic(t)
  \/ \E t \in Threads : GetResetPanic(t)

\* Pools with a release hook, with and without callbacks, niladic and stateful.
HookPools ==
  { NewWithDefaultResetter("simple", "hash", PutOpts),
    NewWithResetter("decorator", "hash", "bytes", CustomResetter),
    MonadicNew("simple", "reader", "bytes", BothOpts) }

InitResetPanic == pool \in HookPools /\ getsLeft = MaxGets + 1 /\ Fresh

SpecResetPanic == InitResetPanic /\ [][NextResetPanic]_vars

StoreDrop_NoRemoval(v) ==
  /\ store[v] > 0
  /\ store' = store
  /\ dropped' = dropped \cup {[obj |-> v, at |-> nGets]}
  /\ UNCHANGED <<pool, nPuts, nHits, content, nObjs, pc, obj, st>>
  /\ UNCHANGED callVars
  /\ UNCHANGED useVars
  /\ UNCHANGED countVars
  /\ UNCHANGED obsVars

\* sync.Pool drops a resident object (a garbage collection empties the pool).
StoreDrop(v) ==
  /\ store[v] > 0
  /\ store' = [store EXCEPT ![v] = @ - 1]
  /\ dropped' = dropped \cup {[obj |-> v, at |-> nGets]}
  /\ UNCHANGED <<pool, nPuts, nHits, content, nObjs, pc, obj, st>>
  /\ UNCHANGED callVars
  /\ UNCHANGED useVars
  /\ UNCHANGED countVars
  /\ UNCHANGED obsVars

NextDrop == Next \/ \E v \in Objs : StoreDrop(v)

InitDrop == pool \in DeepPools /\ getsLeft = MaxGets /\ Fresh

SpecDrop == InitDrop /\ [][NextDrop]_vars

\* ---------------------------------------------------------------- xpool.Raw
\* var pool xpool.Raw[T]: a sync.Pool and nothing else, no constructor and
\* no resetter.
RawPool(vtype) == MakePool("Raw", vtype, "bytes", NilResetter, NilResetter, FALSE)

RawPools == {RawPool(vtype) : vtype \in VTypes}

\* What a call of Raw.Get sets up in the calling goroutine.
RawEnter(t) ==
  /\ pc[t] \in {"idle", "done"}
  /\ getsLeft > 0
  /\ getsLeft' = getsLeft - 1
  /\ readed' = [readed EXCEPT ![t] = << >>]
  /\ inp' = [inp EXCEPT ![t] = << >>]
  /\ digest' = [digest EXCEPT ![t] = 0]
  /\ nGets' = nGets + 1
  /\ UNCHANGED <<pool, dropped, nPuts, content, nObjs, st, fired, trace, built, nCtor>>
  /\ UNCHANGED obsVars

\* object, ok = r.pool.Get().(T) where sync.Pool yields a resident object:
\* the assertion holds, Get returns (object, true).
RawGetHit(t, v) ==
  /\ RawEnter(t)
  /\ store[v] > 0
  /\ store' = [store EXCEPT ![v] = @ - 1]
  /\ obj' = [obj EXCEPT ![t] = v]
  /\ fetched' = [fetched EXCEPT ![t] = v]
  /\ ok' = [ok EXCEPT ![t] = TRUE]
  /\ pc' = [pc EXCEPT ![t] = "held"]
  /\ nMiss' = nMiss
  /\ nHits' = [nHits EXCEPT ![v] = @ + 1]

RawGetMiss_Construct(t) ==
  /\ pc[t] \in {"idle", "done"}
  /\ getsLeft > 0
  /\ getsLeft' = getsLeft - 1
  /\ readed' = [readed EXCEPT ![t] = << >>]
  /\ inp' = [inp EXCEPT ![t] = << >>]
  /\ digest' = [digest EXCEPT ![t] = 0]
  /\ nGets' = nGets + 1
  /\ nObjs' = nObjs + 1
  /\ content' = [content EXCEPT ![nObjs + 1] = << >>]
  /\ obj' = [obj EXCEPT ![t] = nObjs + 1]
  /\ fetched' = [fetched EXCEPT ![t] = NoObj]
  /\ ok' = [ok EXCEPT ![t] = TRUE]
  /\ pc' = [pc EXCEPT ![t] = "held"]
  /\ nMiss' = nMiss + 1
  /\ UNCHANGED <<pool, dropped, nPuts, nHits, store, st, fired, trace, built, nCtor>>
  /\ UNCHANGED obsVars

\* ... where sync.Pool yields nil (it is empty, or drops or ignores what it
\* holds): the assertion fails, Get returns (zero value, false).
RawGetMiss(t) ==
  /\ RawEnter(t)
  /\ obj' = [obj EXCEPT ![t] = NoObj]
  /\ fetched' = [fetched EXCEPT ![t] = NoObj]
  /\ ok' = [ok EXCEPT ![t] = FALSE]
  /\ pc' = [pc EXCEPT ![t] = "missed"]
  /\ nMiss' = nMiss + 1
  /\ UNCHANGED <<store, nHits>>

\* "It is caller responsibility to create an object T them": the caller makes
\* the value after a miss.
RawMake(t) ==
  /\ pc[t] = "missed"
  /\ nObjs' = nObjs + 1
  /\ content' = [content EXCEPT ![nObjs + 1] = << >>]
  /\ obj' = [obj EXCEPT ![t] = nObjs + 1]
  /\ pc' = [pc EXCEPT ![t] = "held"]
  /\ UNCHANGED <<pool, dropped, nPuts, nHits, store, st>>
  /\ UNCHANGED callVars
  /\ UNCHANGED useVars
  /\ UNCHANGED countVars
  /\ UNCHANGED obsVars

\* Raw.Put(object): r.pool.Put(object).
RawPut(t) ==
  /\ pc[t] \in {"held", "used"}
  /\ store' = [store EXCEPT ![obj[t]] = @ + 1]
  /\ pc' = [pc EXCEPT ![t] = "done"]
  /\ nPuts' = [nPuts EXCEPT ![obj[t]] = @ + 1]
  /\ UNCHANGED <<pool, dropped, nHits, content, nObjs, obj, st>>
  /\ UNCHANGED callVars
  /\ UNCHANGED useVars
  /\ UNCHANGED countVars
  /\ UNCHANGED obsVars

NextRaw ==
  \/ \E t \in Threads : \E v \in Objs : RawGetHit(t, v)
  \/ \E t \in Threads : RawGetMiss(t)
  \/ \E t \in Threads : RawMake(t)
  \/ \E t \in Threads : \E p \in Payloads : Use(t, p)
  \/ \E t \in Threads : RawPut(t)

InitRaw == pool \in RawPools /\ getsLeft = MaxGets + 1 /\ Fresh

SpecRaw == InitRaw /\ [][NextRaw]_vars

\* ================================================================ claims
HasReleaseHook == pool.resetter.fn # "nil"

InPutHook(t) == pc[t] \in {"put_reset", "put_cbs"}

RECURSIVE CountSite(_, _)
CountSite(tr, site) ==
  IF tr = << >> THEN 0
  ELSE (IF Head(tr).site = site THEN 1 ELSE 0) + CountSite(Tail(tr), site)

\* The release hook of t's Put has run to its end on t's object.
HookDone(t) ==
  /\ trace[t] # << >>
  /\ trace[t][Len(trace[t])].site = "put"
  /\ trace[t][Len(trace[t])].obj = obj[t]
  /\ Len(fired[t]) = Len(pool.resetter.cbs)

\* C1: on a pool with a release hook, an object enters the store only through
\* a Put whose release hook has run to completion on it, and no object is
\* resident while its hook runs (each holder Puts what it got, once).
C1_HookBeforeStore ==
  [][HasReleaseHook =>
       /\ \A v \in Objs : store'[v] > store[v] =>
            \E t \in Threads : obj[t] = v /\ pc[t] # pc'[t] /\ HookDone(t)
       /\ \A t \in Threads : InPutHook(t)' => store'[obj'[t]] = 0]_vars

C1_Witness ==
  \E t \in Threads :
    /\ HasReleaseHook
    /\ pc[t] = "done" /\ HookDone(t) /\ store[obj[t]] = 1
    /\ fired[t] # << >>

\* C2 (as claimed): for every pool, a completed Put has made exactly one
\* release-time reset attempt.
C2_EveryPoolOneAttempt ==
  \A t \in Threads : pc[t] = "done" => CountSite(trace[t], "put") = 1

\* C2 (amended): for every pool built with a release hook, each Put makes
\* exactly one release-time reset attempt: never two, and one by the time the
\* object is handed to the store.
C2_HookPoolOneAttempt ==
  HasReleaseHook =>
    \A t \in Threads :
      /\ CountSite(trace[t], "put") <= 1
      /\ pc[t] \in {"put_store", "done"} => CountSite(trace[t], "put") = 1
      /\ pc[t] \in {"put_cbs", "put_store", "done"} =>
           trace[t][Len(trace[t])].obj = obj[t]

C2_Witness ==
  \E t \in Threads :
    /\ HasReleaseHook /\ ~Called(pool.resetter)
    /\ pc[t] = "done" /\ CountSite(trace[t], "put") = 1

\* C3: on a stateful pool every cycle Get(s) ... Put(v) makes one
\* acquisition-time attempt on v with s, between the fetch and the return of
\* Get, then one release-time attempt on v with the zero value of S; the
\* custom-resetter constructor uses the one supplied function for both.
GetAttempt(t) == <<"get", obj[t], st[t]>>

PutAttempt(t) == <<"put", obj[t], Zero(pool.stype)>>

RECURSIVE Attempts(_)
Attempts(tr) ==
  IF tr = << >> THEN << >>
  ELSE <<(<<Head(tr).site, Head(tr).obj, Head(tr).arg>>)>> \o Attempts(Tail(tr))

C3_StatefulAttempts ==
  pool.monadic =>
    /\ \A t \in Threads :
         /\ pc[t] \in {"get_ctor", "get_reset"} => Attempts(trace[t]) = << >>
         /\ pc[t] \in {"get_cbs", "held", "used", "put_reset"} =>
              Attempts(trace[t]) = <<GetAttempt(t)>>
         /\ pc[t] \in {"put_cbs", "put_store", "done"} =>
              Attempts(trace[t]) = <<GetAttempt(t), PutAttempt(t)>>
    /\ pool.getResetter.fn = "custom" =>
         /\ [pool.resetter EXCEPT !.zero = FALSE] = pool.getResetter
         /\ pool.resetter.zero

C3_Witness ==
  \E t \in Threads :
    /\ pool.monadic
    /\ pc[t] = "done" /\ fetched[t] # NoObj /\ st[t] # Zero(pool.stype)
    /\ Len(trace[t]) = 2

\* C4: Get returns what the store yields on a hit and never constructs then;
\* on a miss it constructs exactly once and returns the new object; the
\* constructor has been called once per miss.
HasObject(t) == pc[t] \in {"get_reset", "get_cbs", "held", "used"}

C4_HitOrConstructOnce ==
  /\ \A t \in Threads :
       HasObject(t) =>
         /\ fetched[t] # NoObj => (obj[t] = fetched[t] /\ built[t] = 0)
         /\ fetched[t] = NoObj => (obj[t] \in 1..nObjs /\ built[t] = 1)
  /\ nCtor + Cardinality({t \in Threads : pc[t] = "get_ctor"}) = nMiss
  /\ nCtor = nObjs

C4_Witness ==
  \E t, u \in Threads :
    /\ pc[t] = "held" /\ fetched[t] # NoObj /\ built[t] = 0
    /\ pc[u] = "done" /\ fetched[u] = NoObj /\ built[u] = 1
    /\ obj[t] = obj[u] /\ nCtor = 1 /\ nMiss = 1

\* C5: on a niladic pool whose release hook calls Reset() (hash values), with
\* holders that do not touch an object after Put, resident objects are clean,
\* every object Get returns is clean, and the digest a holder takes after
\* writing p is the digest of p on a fresh hasher.
CleanPool == ~pool.monadic /\ HasReleaseHook /\ pool.vtype = "hash"

C5_CleanOnGet ==
  CleanPool =>
    /\ \A v \in Objs : store[v] > 0 => content[v] = << >>
    /\ \A t \in Threads :
         /\ pc[t] = "held" => content[obj[t]] = << >>
         /\ pc[t] = "used" => digest[t] = Sum(Write(<< >>, inp[t]))

C5_Witness ==
  \E t, u \in Threads :
    /\ CleanPool /\ t # u
    /\ pc[u] = "done" /\ inp[u] # << >>
    /\ pc[t] = "used" /\ fetched[t] = obj[u] /\ obj[t] = obj[u]
    /\ inp[t] # << >> /\ digest[t] = Sum(inp[t])

\* C6 (as claimed): on every stateful pool, what the holder reads back from
\* the value Get(b) returned is b.
C6_RoundTripEveryPool ==
  pool.monadic =>
    \A t \in Threads : pc[t] = "used" => readed[t] = st[t]

\* C6 (amended): on a stateful pool whose values expose Reset(S) for the
\* pool's own S, the value Get(b) returns carries b, fresh or reused.
StatefulValues == pool.monadic /\ pool.vtype = "reader" /\ pool.stype = "bytes"

C6_RoundTrip ==
  StatefulValues =>
    \A t \in Threads :
      /\ pc[t] = "held" => ReadAll(content[obj[t]]) = st[t]
      /\ pc[t] = "used" => readed[t] = st[t]

C6_Witness ==
  \E t, u \in Threads :
    /\ StatefulValues /\ t # u
    /\ pc[u] = "done" /\ st[u] # st[t]
    /\ pc[t] = "used" /\ fetched[t] = obj[u] /\ obj[t] = obj[u]
    /\ st[t] # << >> /\ readed[t] = st[t]

\* C7: on a stateful pool whose values expose Reset(S), every resident object
\* carries the zero state, and a reused object acquired with the zero state
\* reads back empty, whatever state it carried in its earlier cycle.
C7_StoreHoldsZero ==
  StatefulValues =>
    /\ \A v \in Objs : store[v] > 0 => content[v] = Zero(pool.stype)
    /\ \A t \in Threads :
         (pc[t] = "used" /\ fetched[t] # NoObj /\ st[t] = Zero(pool.stype)) =>
           readed[t] = << >>

C7_Witness ==
  \E t, u \in Threads :
    /\ StatefulValues /\ t # u
    /\ pc[u] = "done" /\ st[u] # Zero(pool.stype)
    /\ pc[t] = "used" /\ fetched[t] = obj[u] /\ obj[t] = obj[u]
    /\ st[t] = Zero(pool.stype) /\ readed[t] = << >>

\* C8: the default stateful resetter calls Reset, and reports true to the
\* observers, exactly when the value type has Reset(S) for the pool's own S
\* (*bytes.Reader on a []byte pool); otherwise no Reset call and false, on Get
\* and on Put alike.
ExactMatch == pool.vtype = "reader" /\ pool.stype = "bytes"

C8_ExactStateType ==
  (pool.monadic /\ pool.getResetter.fn = "default") =>
    /\ pool.resetter.fn = "default"
    /\ \A t \in Threads :
         /\ \A i \in 1..Len(trace[t]) : trace[t][i].called = ExactMatch
         /\ \A i \in 1..Len(fired[t]) : fired[t][i].called = ExactMatch
         /\ pc[t] \in {"held", "used"} =>
              (content[obj[t]] = IF ExactMatch THEN st[t] ELSE << >>)

C8_Witness ==
  \E t \in Threads :
    /\ pool.monadic /\ pool.getResetter.fn = "default"
    /\ pool.vtype = "reader" /\ pool.stype = "int"
    /\ pc[t] = "done" /\ st[t] = <<1>> /\ Len(trace[t]) = 2
    /\ fired[t] # << >> /\ ~fired[t][1].called /\ content[obj[t]] = << >>

\* C9: on a NewWithDefaultResetter pool every Put calls Reset() exactly when
\* the value has it (a hash, not a string) and passes every on-Put callback
\* true exactly then.
NiladicDefault == ~pool.monadic /\ pool.resetter.fn = "default"

C9_ResetIffResetter ==
  NiladicDefault =>
    \A t \in Threads :
      /\ \A i \in 1..Len(trace[t]) :
           trace[t][i].site = "put" /\ trace[t][i].called = (pool.vtype = "hash")
      /\ \A i \in 1..Len(fired[t]) : fired[t][i].called = (pool.vtype = "hash")
      /\ (pool.vtype = "hash" /\ pc[t] \in {"put_cbs", "put_store"}) =>
           content[obj[t]] = << >>

C9_Witness ==
  \E t \in Threads :
    /\ NiladicDefault /\ pool.vtype = "string"
    /\ pc[t] = "done" /\ Len(fired[t]) = 2
    /\ \A i \in 1..2 : ~fired[t][i].called

\* C10: the callbacks of a call site fire after the reset attempt, each once,
\* in registration order: the order of the options and, within an option, of
\* its callbacks.
Registered(opts, site) ==
  IF opts = PutOpts THEN (IF site = "put" THEN <<1, 4>> ELSE << >>)
  ELSE IF opts = BothOpts THEN (IF site = "put" THEN <<1, 4>> ELSE <<2, 3>>)
  ELSE << >>

FiredIds(t) == [i \in 1..Len(fired[t]) |-> fired[t][i].cb]

IsPrefix(a, b) == Len(a) <= Len(b) /\ a = SubSeq(b, 1, Len(a))

CallbackOrder(t, opts) ==
  /\ pc[t] = "get_cbs" =>
       /\ trace[t] # << >> /\ trace[t][Len(trace[t])].site = "get"
       /\ IsPrefix(FiredIds(t), Registered(opts, "get"))
       /\ Len(fired[t]) < Len(Registered(opts, "get"))
  /\ pc[t] \in {"held", "used"} => FiredIds(t) = Registered(opts, "get")
  /\ pc[t] = "put_cbs" =>
       /\ trace[t] # << >> /\ trace[t][Len(trace[t])].site = "put"
       /\ IsPrefix(FiredIds(t), Registered(opts, "put"))
       /\ Len(fired[t]) < Len(Registered(opts, "put"))
  /\ pc[t] \in {"put_store", "done"} => FiredIds(t) = Registered(opts, "put")

\* (package xpool has no option for Get: BothOpts is for monadicpool only)
BuiltWith(opts) ==
  \/ /\ opts # BothOpts
     /\ \E ver \in Versions, vt \in VTypes : pool = NewWithDefaultResetter(ver, vt, opts)
  \/ \E vt \in VTypes, stp \in STypes : pool = MonadicNew("simple", vt, stp, opts)

C10_CallbackOrder ==
  \A opts \in {NoOpts, PutOpts, BothOpts} :
    BuiltWith(opts) => \A t \in Threads : CallbackOrder(t, opts)

C10_Witness ==
  \E t \in Threads :
    /\ BuiltWith(BothOpts) /\ ~ExactMatch
    /\ pc[t] = "done" /\ FiredIds(t) = <<1, 4>>
    /\ Len(trace[t]) = 2 /\ ~trace[t][2].called

\* C11: while one goroutine alone runs Get/Put cycles on a stateful pool with
\* one callback on each side, the acquire and release observations alternate,
\* starting with an acquire (the i-th acquire comes before the i-th release,
\* which comes before the next acquire), and after N complete cycles there
\* are exactly N of each.
Sequential(t) == \A u \in Threads \ {t} : pc[u] = "idle"

InsideCycle(t) == pc[t] \in {"held", "used", "put_reset"}

C11_ObserverCardinality ==
  \A t \in Threads :
    Sequential(t) =>
      /\ Len(onPutCalls) <= Len(onGetCalls)
      /\ Len(onGetCalls) <= Len(onPutCalls) + 1
      /\ pc[t] \in {"idle", "done"} =>
           (Len(onGetCalls) = nGets /\ Len(onPutCalls) = nGets)
      /\ InsideCycle(t) =>
           (Len(onGetCalls) = nGets /\ Len(onPutCalls) = nGets - 1)

C11_Witness ==
  \E t \in Threads :
    /\ Sequential(t) /\ pc[t] = "done" /\ nGets = 2
    /\ Len(onGetCalls) = 2 /\ Len(onPutCalls) = 2

\* C12: a callback registered with WithOnGetResetCallback is invoked only
\* inside Get, one registered with WithOnPutResetCallback only inside Put; the
\* two-argument callback gets onGet = TRUE exactly inside Get and FALSE
\* exactly inside Put.
InGet(t) == pc[t] \in {"get_cbs", "held", "used"}

InPut(t) == pc[t] \in {"put_cbs", "put_store", "done"}

Combined == "onGet" \in DOMAIN pool.getResetter

C12_CallSite ==
  \A t \in Threads : \A i \in 1..Len(fired[t]) :
    IF Combined
    THEN /\ InGet(t) => fired[t][i].onGet
         /\ InPut(t) => ~fired[t][i].onGet
    ELSE /\ InGet(t) => fired[t][i].cb = 2
         /\ InPut(t) => fired[t][i].cb = 1

C12_Witness ==
  \E t, u \in Threads :
    /\ Combined /\ t # u
    /\ pc[t] = "held" /\ Len(fired[t]) = 1 /\ fired[t][1].onGet
    /\ pc[u] = "done" /\ Len(fired[u]) = 1 /\ ~fired[u][1].onGet

\* C13 (as claimed): building a pool with a nil resetter where one is
\* mandated fails at construction, so no call is ever made on such a pool:
\* none that panics later, none that skips the reset.
MandatoryResetter == pool \in NilPools

C13_FailsAtConstruction ==
  MandatoryResetter => \A t \in Threads : pc[t] = "idle"

\* C14 (as claimed): a pool built by xpool.NewWithResetter(ctor, nil) behaves
\* like New(ctor): no Get and no Put fails, and every Put stores the value
\* without a hook.
NilNiladic == pool \in NilPools /\ ~pool.monadic

C14_NilResetterLikeNew ==
  NilNiladic =>
    \A t \in Threads :
      /\ pc[t] # "panicked"
      /\ pc[t] \in {"put_store", "done"} => trace[t] = << >>

\* C15: on a default-resetter pool whose values lack the matching Reset, no
\* call fails: every Get that returned holds a constructed value, every
\* attempt and every callback reports false, no value changes, and every
\* value is either in the store or with exactly one goroutine, so a
\* completed Put has handed its value to the store.
Mismatch ==
  /\ pool.resetter.fn = "default"
  /\ IF pool.monadic THEN ~ExactMatch ELSE pool.vtype # "hash"

InCall(t) == pc[t] \in {"get_reset", "get_cbs", "held", "used", "put_reset", "put_cbs", "put_store"}

Holders(v) == {t \in Threads : InCall(t) /\ obj[t] = v}

C15_MismatchIsNoError ==
  Mismatch =>
    /\ \A t \in Threads :
         /\ pc[t] # "panicked"
         /\ InCall(t) => obj[t] \in 1..nObjs
         /\ \A i \in 1..Len(trace[t]) : ~trace[t][i].called
         /\ \A i \in 1..Len(fired[t]) : ~fired[t][i].called
    /\ \A v \in 1..nObjs :
         /\ content[v] = << >>
         /\ store[v] + Cardinality(Holders(v)) = 1

C15_Witness ==
  \E t \in Threads :
    /\ Mismatch /\ pool.monadic
    /\ pc[t] = "done" /\ store[obj[t]] = 1
    /\ Len(trace[t]) = 2 /\ Len(fired[t]) = 2 /\ ~fired[t][2].called

\* C16: a constructor panic during a Get miss reaches the caller: the Get
\* never returns a value and the goroutine's call is over for good, the
\* constructor is not called a second time by that Get, no reset attempt and
\* no callback is made for it, and the store is left as it was.
C16_CtorPanicPropagates ==
  [][\A t \in Threads :
       /\ built'[t] <= 1
       /\ pc[t] = "panicked" => (pc'[t] = "panicked" /\ obj'[t] = obj[t])
       /\ pc'[t] = "panicked" =>
            /\ obj'[t] = NoObj /\ built'[t] = 1
            /\ trace'[t] = << >> /\ fired'[t] = << >>
       /\ (pc[t] = "get_ctor" /\ pc'[t] = "panicked") =>
            (store' = store /\ content' = content /\ obsVars' = obsVars)]_vars

C16_Witness ==
  \E t, u \in Threads :
    /\ pc[t] = "panicked" /\ built[t] = 1 /\ obj[t] = NoObj
    /\ pool.monadic /\ pool.getResetter.cbs # << >>
    /\ pc[u] = "done" /\ store[obj[u]] = 1

\* C17: every Get that has started returns a value and every Put that has
\* started returns, whatever the other goroutines do or fail to do: nothing
\* makes the other goroutines release what they hold.
InsideGet(t) == pc[t] \in {"get_ctor", "get_reset", "get_cbs"}

InsidePut(t) == pc[t] \in {"put_reset", "put_cbs", "put_store"}

C17_CallsTerminate ==
  \A t \in Threads :
    /\ InsideGet(t) ~> pc[t] = "held"
    /\ InsidePut(t) ~> pc[t] = "done"

\* A Get on an empty store has returned a fresh value while the other
\* goroutine holds the only value made before.
C17_Witness ==
  \E t, u \in Threads :
    /\ t # u /\ pc[u] \in {"held", "used"} /\ obj[u] = 1
    /\ pc[t] = "held" /\ fetched[t] = NoObj /\ obj[t] = 2
    /\ \A v \in Objs : store[v] = 0

\* C18: on a fresh pool, two Gets with no Put before them (concurrent or one
\* after the other) both find the store empty, both construct, and return
\* two distinct instances.
FirstTwoGets(t, u) == t # u /\ nGets = 2 /\ HasObject(t) /\ HasObject(u)

C18_FreshGetsDistinct ==
  \A t, u \in Threads :
    FirstTwoGets(t, u) =>
      /\ fetched[t] = NoObj /\ fetched[u] = NoObj
      /\ built[t] = 1 /\ built[u] = 1
      /\ obj[t] # obj[u]
      /\ nCtor = 2

C18_Witness ==
  \E t, u \in Threads :
    /\ FirstTwoGets(t, u) /\ pc[t] = "held" /\ pc[u] = "held"
    /\ obj[t] = 1 /\ obj[u] = 2 /\ \A v \in Objs : store[v] = 0

\* C19: with callers that Put what they got once, a resident value is
\* resident once and goes to one Get only: of two goroutines that are inside
\* their calls at the same time at most one got it from the store, the other
\* constructed, and they never work on the same value.
Reused(t) == fetched[t] # NoObj /\ obj[t] = fetched[t] /\ built[t] = 0

Constructed(t) == fetched[t] = NoObj /\ built[t] = 1

C19_ResidentNotShared ==
  /\ \A v \in Objs : store[v] <= 1
  /\ \A t, u \in Threads :
       (t # u /\ InCall(t) /\ InCall(u)) =>
         /\ obj[t] # obj[u]
         /\ Reused(t) \/ Constructed(t)
         /\ store[obj[t]] = 0

\* One value was resident; of two concurrent Gets one reused it, the other
\* constructed.
C19_Witness ==
  \E t, u \in Threads :
    /\ t # u /\ pc[t] = "held" /\ pc[u] = "held"
    /\ Reused(t) /\ obj[t] = 1 /\ Constructed(u) /\ obj[u] = 2
    /\ nObjs = 2 /\ nGets = 3

\* C20: Put performs no check: whenever a Put reaches the store it adds its
\* value, resident already or not, held by somebody or not. So a value that
\* was Put twice is resident twice, and two Gets return it to two holders.
C20_PutUnchecked ==
  [][\A t \in Threads :
       (pc[t] = "put_store" /\ pc'[t] # "put_store") =>
         /\ pc'[t] = "done"
         /\ store' = [store EXCEPT ![obj[t]] = @ + 1]]_vars

C20_Witness ==
  \E t, u \in Threads :
    /\ t # u /\ pc[t] = "held" /\ pc[u] = "held"
    /\ obj[t] = obj[u] /\ Reused(t) /\ Reused(u)

\* C21: the pool takes no lock around the functions it calls: a goroutine
\* that stands before its constructor call, its resetter call or a callback
\* can take that step wherever the other goroutine is, also when that one is
\* inside the same function.
C21_NoSerialization ==
  \A t \in Threads :
    /\ pc[t] = "get_ctor" => ENABLED Construct(t)
    /\ pc[t] = "get_reset" => ENABLED GetReset(t)
    /\ pc[t] = "get_cbs" => ENABLED GetCallback(t)
    /\ pc[t] = "put_reset" => ENABLED PutReset(t)
    /\ pc[t] = "put_cbs" => ENABLED PutCallback(t)

\* Both goroutines are inside the release hook, on different values.
C21_Witness ==
  \E t, u \in Threads :
    /\ t # u /\ HasReleaseHook
    /\ pc[t] = "put_reset" /\ pc[u] = "put_reset" /\ obj[t] # obj[u]

\* Both goroutines are inside the constructor.
C21_BothInConstructor == \A t \in Threads : pc[t] = "get_ctor"

\* The run of TestRaw up to its second Get: one Get made, which missed, and
\* the value x the caller made is put; the other goroutine has done nothing.
JustPut(x) ==
  /\ nGets = 1 /\ x # NoObj /\ store[x] = 1
  /\ \E t \in Threads :
       /\ pc[t] = "done" /\ obj[t] = x
       /\ \A u \in Threads \ {t} : pc[u] = "idle"

\* Goroutine t makes a call of Raw.Get in this step.
RawGets(t) == pc[t] \in {"idle", "done"} /\ pc'[t] \in {"held", "missed"}

C23_DroppedIsGone ==
  /\ \A d \in dropped :
       /\ store[d.obj] = 0
       /\ \A t \in Threads : obj[t] = d.obj => pc[t] = "done"
  /\ \A t \in Threads :
       (HasObject(t) /\ fetched[t] = NoObj) =>
         /\ built[t] = 1
         /\ \A d \in dropped : d.obj # obj[t]
         /\ \A u \in Threads \ {t} : obj[u] # obj[t]
  /\ C2_HookPoolOneAttempt /\ C3_StatefulAttempts /\ C5_CleanOnGet
  /\ C6_RoundTrip /\ C7_StoreHoldsZero /\ C9_ResetIffResetter /\ C10_CallbackOrder

\* A goroutine got a fresh value, put it, the store dropped it, and the
\* goroutine's next Get missed and constructed another value.
C23_Witness ==
  \E t \in Threads :
    /\ \A u \in Threads \ {t} : pc[u] = "idle"
    /\ dropped = {[obj |-> 1, at |-> 1]} /\ nGets = 2
    /\ pc[t] = "held" /\ fetched[t] = NoObj /\ built[t] = 1 /\ obj[t] = 2

\* The pool the other constructor builds from the same constructor function:
\* NewWithDefaultResetter(ctor) for NewWithResetter(ctor, h.Reset()) and back,
\* monadicpool.New[S](ctor) for monadicpool.NewWithResetter(ctor,
\* object.Reset(state)) and back.
VersionOf(p) == IF p.impl = "simplePool" THEN "simple" ELSE "decorator"

Twin(p) ==
  IF p.monadic
  THEN IF p.getResetter.fn = "custom"
       THEN MonadicNew(VersionOf(p), p.vtype, p.stype, NoOpts)
       ELSE MonadicNewWithResetter(VersionOf(p), p.vtype, p.stype, CustomResetterS)
  ELSE IF p.resetter.fn = "custom"
       THEN NewWithDefaultResetter(VersionOf(p), p.vtype, NoOpts)
       ELSE NewWithResetter(VersionOf(p), p.vtype, "bytes", CustomResetter)

\* The pool is one of the two of such a pair, over a value type that has the
\* matching Reset.
HasTwin(p) ==
  /\ p.impl \in {"simplePool", "resettablePool"}
  /\ p.resetter.fn \in {"custom", "default"}
  /\ Twin(Twin(p)) = p
  /\ IF p.monadic THEN IsResetterS(p.vtype, p.stype) ELSE IsResetter(p.vtype)

\* The step the resetter r makes on goroutine t's object is the step taken.
SameAttempt(t, r, site, cbsPc, nextPc) ==
  /\ r.fn # "nil"
  /\ content' = [content EXCEPT ![obj[t]] = Resetted(r, @, st[t])]
  /\ ok' = [ok EXCEPT ![t] = Called(r)]
  /\ trace' = [trace EXCEPT ![t] =
       Append(@, [site |-> site, obj |-> obj[t],
                  arg |-> IF r.arity = 0 THEN << >> ELSE ResetArg(r, st[t]),
                  called |-> Called(r)])]
  /\ pc' = [pc EXCEPT ![t] = IF r.cbs = << >> THEN nextPc ELSE cbsPc]

\* C24: on a value type with the matching Reset, the pool of the default
\* constructor and the pool of the custom-resetter constructor whose resetter
\* only calls Reset take the same steps: every reset a pool makes is the
\* reset its twin would make (same Reset call, same argument, same result),
\* and the twin has the same Get and Put paths around it.
C24_TwinSteps ==
  [][HasTwin(pool) =>
       /\ Twin(pool).impl = pool.impl /\ Twin(pool).monadic = pool.monadic
       /\ IsNil(Twin(pool).resetter) = IsNil(pool.resetter)
       /\ \A t \in Threads :
            /\ (pc[t] = "get_reset" /\ pc'[t] # pc[t]) =>
                 SameAttempt(t, Twin(pool).getResetter, "get", "get_cbs", "held")
            /\ (pc[t] = "put_reset" /\ pc'[t] # pc[t]) =>
                 SameAttempt(t, Twin(pool).resetter, "put", "put_cbs", "put_store")
            /\ pc[t] \notin {"get_cbs", "put_cbs"}]_vars

\* A cycle Get(b), Put on the custom-resetter pool of the stateful pair, on
\* a reused value and with a state that is not the zero value.
C24_Witness ==
  \E t \in Threads :
    /\ HasTwin(pool) /\ pool.monadic /\ pool.getResetter.fn = "custom"
    /\ pc[t] = "done" /\ fetched[t] # NoObj /\ st[t] # Zero(pool.stype)
    /\ Len(trace[t]) = 2 /\ trace[t][2].arg = Zero(pool.stype)

\* ... and on the default pool of the niladic pair.
C24_WitnessNiladic ==
  \E t \in Threads :
    /\ HasTwin(pool) /\ ~pool.monadic /\ pool.resetter.fn = "default"
    /\ pc[t] = "done" /\ fetched[t] # NoObj /\ inp[t] # << >>
    /\ content[obj[t]] = << >>

\* The pool was built by xpool.New: no resetter at all.
PlainPool ==
  /\ ~pool.monadic /\ IsNil(pool.resetter)
  /\ pool.impl \in {"simplePool", "plainPool"}

\* C25: on a pool built by xpool.New, Put goes straight to the store and
\* leaves the value as it is, a Get that hits returns the value as it is, no
\* reset is attempted and no callback fired; the only steps that change a
\* value are the holder's writes and the constructor call of a Get that
\* missed, and the store changes only by one value per Get hit and per Put.
C25_PlainFrame ==
  [][PlainPool =>
       \A t \in Threads :
         /\ trace'[t] = << >> /\ fired'[t] = << >>
         /\ pc'[t] \notin {"get_reset", "get_cbs", "put_reset", "put_cbs", "panicked"}
         /\ (pc[t] \in {"held", "used"} /\ pc'[t] # pc[t] /\ pc'[t] # "used") =>
              (pc'[t] = "put_store" /\ content' = content /\ store' = store)
         /\ (pc[t] = "put_store" /\ pc'[t] # pc[t]) =>
              /\ pc'[t] = "done" /\ content' = content
              /\ store' = [store EXCEPT ![obj[t]] = @ + 1]
         /\ (pc[t] \in {"idle", "done"} /\ pc'[t] = "held") =>
              /\ content' = content /\ nCtor' = nCtor
              /\ store' = [store EXCEPT ![obj'[t]] = @ - 1]
         /\ (pc[t] \in {"idle", "done"} /\ pc'[t] = "get_ctor") =>
              (content' = content /\ store' = store)
         /\ (pc[t] = "get_ctor" /\ pc'[t] # pc[t]) =>
              /\ pc'[t] = "held" /\ store' = store /\ nCtor' = nCtor + 1
              /\ \A v \in Objs \ {obj'[t]} : content'[v] = content[v]]_vars

\* A value a holder wrote to went through Put and the store and came back
\* from Get with what was written still in it.
C25_Witness ==
  \E t, u \in Threads :
    /\ PlainPool /\ t # u
    /\ pc[u] = "done" /\ inp[u] # << >>
    /\ pc[t] = "held" /\ fetched[t] = obj[u] /\ obj[t] = obj[u]
    /\ content[obj[t]] = inp[u]

\* A reset invocation of goroutine t is in progress: the acquisition-time
\* resetter inside Get or the release-time resetter inside Put, from its call
\* to the return of its last callback.
InReset(t) == pc[t] \in {"get_reset", "get_cbs", "put_reset", "put_cbs"}

\* C26: with holders that put each value they got once and leave it alone
\* afterwards, no two reset invocations are in progress on the same value,
\* and a value under reset is not in the store: the release-time reset is
\* over before the value enters it, the acquisition-time reset starts after
\* the value has left it.
C26_OneResetPerValue ==
  /\ \A t, u \in Threads :
       (t # u /\ InReset(t) /\ InReset(u)) => obj[t] # obj[u]
  /\ \A t \in Threads : InReset(t) => (obj[t] \in 1..nObjs /\ store[obj[t]] = 0)

\* An acquisition-time reset of a reused value and a release-time reset of
\* another value are in progress at the same time.
C26_Witness ==
  \E t, u \in Threads :
    /\ t # u
    /\ pc[t] = "get_reset" /\ fetched[t] # NoObj
    /\ pc[u] = "put_reset" /\ obj[u] # obj[t]

\* The sum of a per-object count over the objects 1..n.
RECURSIVE Total(_, _)
Total(f, n) == IF n = 0 THEN 0 ELSE f[n] + Total(f, n - 1)

\* C27: a value that a Get has fetched from the store was put before, and
\* each completed Put of a value feeds at most one hit on it; a Get that
\* fetched nothing returns the value of its own constructor call, which was
\* never put nor fetched before that Get; no value of another origin exists.
\* Over the whole run the hits are at most the completed Puts.
C27_Provenance ==
  /\ \A v \in Objs :
       /\ nHits[v] <= nPuts[v]
       /\ nHits[v] + store[v] <= nPuts[v]
       /\ v > nObjs => (nPuts[v] = 0 /\ nHits[v] = 0 /\ store[v] = 0)
  /\ \A t \in Threads :
       HasObject(t) =>
         /\ obj[t] \in 1..nObjs
         /\ fetched[t] # NoObj => (obj[t] = fetched[t] /\ nPuts[obj[t]] >= 1 /\ built[t] = 0)
         /\ fetched[t] = NoObj => (built[t] = 1 /\ nPuts[obj[t]] = 0 /\ nHits[obj[t]] = 0)
  /\ Total(nHits, MaxGets + 1) = nGets - nMiss
  /\ Total(nHits, MaxGets + 1) <= Total(nPuts, MaxGets + 1)

\* Two Gets hit after two completed Puts of the same value.
C27_Witness ==
  \E t \in Threads : \E v \in Objs :
    /\ HasObject(t) /\ fetched[t] = v
    /\ nHits[v] = 2 /\ nPuts[v] = 2 /\ store[v] = 0

\* C28: when the release hook panics inside Put, in the resetter or in a
\* callback, the panicking step leaves the store as it was, Put never reaches
\* the store, and from then on the value is not resident, gains no completed
\* Put and is fetched by no Get.
C28_PanickedPutStoresNothing ==
  [][\A t \in Threads :
       /\ (pc[t] # "panicked_put" /\ pc'[t] = "panicked_put") =>
            (InPutHook(t) /\ store' = store /\ store[obj[t]] = 0)
       /\ pc[t] = "panicked_put" =>
            /\ pc'[t] = "panicked_put" /\ obj'[t] = obj[t]
            /\ store'[obj[t]] = 0
            /\ nPuts'[obj[t]] = nPuts[obj[t]]
            /\ nHits'[obj[t]] = nHits[obj[t]]
            /\ \A u \in Threads \ {t} : obj'[u] = obj[t] => pc'[u] = "done"]_vars

\* A Put panicked in a callback of its hook, after the Reset call, and a
\* later Get of the other goroutine missed and constructed another value.
C28_Witness ==
  \E t, u \in Threads :
    /\ t # u
    /\ pc[t] = "panicked_put" /\ Len(fired[t]) = 1 /\ CountSite(trace[t], "put") = 1
    /\ nGets = 2 /\ pc[u] = "held" /\ fetched[u] = NoObj /\ obj[u] # obj[t]
    /\ \A v \in Objs : store[v] = 0

\* C29: when the acquisition-time resetter panics inside a stateful Get, Get
\* never returns: the value it had taken from the store or constructed is
\* held by no goroutine and the panicking step does not put it back, so it is
\* not resident and no later Get fetches it; a hit that panicked has consumed
\* the Put that fed it.
C29_PanickedGetLosesValue ==
  [][\A t \in Threads :
       /\ (pc[t] # "panicked_get" /\ pc'[t] = "panicked_get") =>
            /\ pool.monadic /\ pc[t] \in {"get_reset", "get_cbs"}
            /\ store' = store /\ store[obj[t]] = 0
       /\ pc[t] = "panicked_get" =>
            /\ pc'[t] = "panicked_get" /\ obj'[t] = obj[t]
            /\ store'[obj[t]] = 0
            /\ nPuts'[obj[t]] = nPuts[obj[t]]
            /\ nHits'[obj[t]] = nHits[obj[t]]
            /\ fetched[t] # NoObj => nHits[obj[t]] = nPuts[obj[t]]
            /\ \A u \in Threads \ {t} : obj'[u] = obj[t] => pc'[u] = "done"]_vars

\* A Get that had fetched a resident value panicked in its resetter; the
\* store is left without the value and the other goroutine's later Get missed.
C29_Witness ==
  \E t, u \in Threads :
    /\ t # u
    /\ pc[t] = "panicked_get" /\ fetched[t] # NoObj /\ trace[t] = << >>
    /\ store[obj[t]] = 0 /\ nPuts[obj[t]] = 1
    /\ nGets = 3 /\ pc[u] = "held" /\ fetched[u] = NoObj /\ obj[u] # obj[t]

\* A niladic pool with a release hook: NewWithResetter with a resetter,
\* NewWithDefaultResetter, resetter.NewPool.
NiladicHook == ~pool.monadic /\ HasReleaseHook

\* The callbacks the Put of goroutine t, still running, has fired.
InFlight(t) ==
  IF pc[t] = "put_cbs" THEN Len(fired[t])
  ELSE IF pc[t] = "put_store" THEN Len(pool.resetter.cbs)
  ELSE 0

RECURSIVE AllInFlight(_)
AllInFlight(ts) ==
  IF ts = {} THEN 0
  ELSE LET t == CHOOSE x \in ts : TRUE IN InFlight(t) + AllInFlight(ts \ {t})

\* C30: on a niladic pool with a release hook, Get makes no reset attempt and
\* fires no callback, whether it hits or misses; a cycle has no attempt before
\* its Put and exactly one once the hook of its Put has run; and the on-Put
\* callbacks fired over the run are those of the completed Puts plus those of
\* the Puts still running, whatever the number of Get calls.
C30_HookOnlyInPut ==
  NiladicHook =>
    /\ onGetCalls = << >>
    /\ \A t \in Threads :
         /\ pc[t] \notin {"get_reset", "get_cbs"}
         /\ CountSite(trace[t], "get") = 0
         /\ pc[t] \in {"get_ctor", "held", "used", "put_reset"} =>
              (trace[t] = << >> /\ fired[t] = << >>)
         /\ pc[t] \in {"put_cbs", "put_store", "done"} =>
              CountSite(trace[t], "put") = 1
    /\ Len(onPutCalls) =
         Len(pool.resetter.cbs) * Total(nPuts, MaxGets + 1) + AllInFlight(Threads)

\* Two Gets, one Put: the callbacks of one hook invocation have fired.
C30_Witness ==
  \E t, u \in Threads :
    /\ NiladicHook /\ Len(pool.resetter.cbs) = 2 /\ t # u
    /\ nGets = 2 /\ pc[t] = "done" /\ pc[u] = "held" /\ fetched[u] = obj[t]
    /\ Len(onPutCalls) = 2 /\ onGetCalls = << >>

\* The resetter whose callbacks goroutine t is firing.
Running(t) == IF pc[t] = "get_cbs" THEN pool.getResetter ELSE pool.resetter

\* What the object holds once the running resetter has called Reset on it.
AfterReset(t) ==
  IF Running(t).arity = 0 THEN ResetNiladic(content[obj[t]])
  ELSE ResetMonadic(content[obj[t]], ResetArg(Running(t), st[t]))

\* Goroutine t fires a callback in this step.
Fires(t) == pc[t] \in {"get_cbs", "put_cbs"} /\ Len(fired'[t]) = Len(fired[t]) + 1

\* C31: when a callback of a default resetter fires, the attempt it belongs
\* to has been made, the value is already reset if it has the capability
\* (and the callback is told so), the value is not in the store and no other
\* goroutine has it, and the callback leaves value and store alone; a Put
\* hands the value to the store only after the last callback.
C31_ResetThenCallbacksThenStore ==
  [][\A t \in Threads :
       /\ (Fires(t) /\ Running(t).fn = "default") =>
            /\ trace[t] # << >>
            /\ trace[t][Len(trace[t])].obj = obj[t]
            /\ trace[t][Len(trace[t])].site = (IF pc[t] = "get_cbs" THEN "get" ELSE "put")
            /\ trace[t][Len(trace[t])].called = Called(Running(t))
            /\ fired'[t][Len(fired'[t])].called = Called(Running(t))
            /\ Called(Running(t)) => content[obj[t]] = AfterReset(t)
            /\ store[obj[t]] = 0
            /\ \A u \in Threads \ {t} : InCall(u) => obj[u] # obj[t]
            /\ content' = content /\ store' = store
       /\ (pc[t] = "put_store" /\ pc'[t] = "done" /\ pool.resetter.fn = "default") =>
            /\ Len(fired[t]) = Len(pool.resetter.cbs)
            /\ CountSite(trace[t], "put") = 1]_vars

\* The first on-Put callback has fired on a hash the holder had written to:
\* the hash is empty again and is not in the store.
C31_Witness ==
  \E t \in Threads :
    /\ ~pool.monadic /\ pool.resetter.fn = "default" /\ pool.vtype = "hash"
    /\ pc[t] = "put_cbs" /\ Len(fired[t]) = 1 /\ fired[t][1].called
    /\ inp[t] # << >> /\ content[obj[t]] = << >> /\ store[obj[t]] = 0

\* The same pool in the other implementation: the struct with the
\* nil-checked resetter for the decorator around a plain pool, and back.
OtherVersion(p) ==
  [NewWithResetter(IF p.impl = "simplePool" THEN "decorator" ELSE "simple",
                   p.vtype, p.stype, p.resetter)
     EXCEPT !.getResetter = p.getResetter, !.monadic = p.monadic]

\* A reset-dispatch pool, in either implementation, with a resetter.
Dispatching(p) ==
  /\ p.impl \in {"simplePool", "resettablePool"}
  /\ ~IsNil(p.resetter) /\ p.resetter.fn # "nil"

\* C32: with a non-nil resetter the two implementations take the same steps:
\* whatever step a Get or a Put of one makes (fetch or miss, constructor
\* call, entry into Put, hook call with its result, store operation), the
\* other implementation, built from the same constructor and resetter, makes
\* the same step from the same state.
C32_SameSteps ==
  [][Dispatching(pool) =>
       /\ OtherVersion(pool).impl # pool.impl
       /\ Dispatching(OtherVersion(pool))
       /\ OtherVersion(OtherVersion(pool)) = pool
       /\ \A t \in Threads :
            /\ (pc[t] \in {"idle", "done"} /\ pc'[t] # pc[t]) =>
                 /\ pc'[t] \in {"get_ctor", IF OtherVersion(pool).monadic THEN "get_reset" ELSE "held"}
                 /\ pc'[t] # "get_ctor" => store' = [store EXCEPT ![obj'[t]] = @ - 1]
                 /\ pc'[t] = "get_ctor" => store' = store
            /\ (pc[t] \in {"held", "used"} /\ pc'[t] \notin {pc[t], "used"}) =>
                 (pc'[t] = PutEntryOf(OtherVersion(pool)) /\ pc'[t] = "put_reset")
            /\ (pc[t] = "put_reset" /\ pc'[t] # pc[t]) =>
                 /\ SameAttempt(t, OtherVersion(pool).resetter, "put", "put_cbs", "put_store")
                 /\ store' = store
            /\ (pc[t] = "put_store" /\ pc'[t] # pc[t]) =>
                 /\ pc'[t] = "done" /\ CountSite(trace[t], "put") = 1
                 /\ store' = [store EXCEPT ![obj[t]] = @ + 1]
                 /\ content' = content]_vars

\* A cycle on a reused, written-to hash has completed on the decorator.
C32_Witness ==
  \E t \in Threads :
    /\ Dispatching(pool) /\ pool.impl = "resettablePool"
    /\ pc[t] = "done" /\ fetched[t] # NoObj /\ inp[t] # << >>
    /\ CountSite(trace[t], "put") = 1 /\ store[obj[t]] = 1

\* ... and on the single struct.
C32_WitnessSimple ==
  \E t \in Threads :
    /\ Dispatching(pool) /\ pool.impl = "simplePool" /\ ~pool.monadic
    /\ pc[t] = "done" /\ fetched[t] # NoObj /\ inp[t] # << >>
    /\ CountSite(trace[t], "put") = 1 /\ store[obj[t]] = 1

====
